---- MODULE Spec2Model ----
(***************************************************************************)
(* Model of the Inzies service worker (public/sw.js, kept here as          *)
(* src/unnamed/part_008): three versioned Cache partitions, the three      *)
(* caching strategies, FIFO size limiting, and the install / activate /    *)
(* fetch / message event listeners.                                        *)
(*                                                                         *)
(* Strings the code inspects character by character (cache names, URL      *)
(* path names) are sequences of one-character strings, so that startsWith  *)
(* and endsWith are computed as the code computes them.                    *)
(*                                                                         *)
(* Every `await` of the code is a step boundary: between two steps of one  *)
(* task any other task, background write or event may run.                 *)
(***************************************************************************)
EXTENDS Integers, Sequences, FiniteSets, TLC

\* ------------------------------------------------------------------ bounds
MaxTasks == 2        \* fetch events being handled at once
MaxEvents == 2       \* events from outside (fetch, message, network change) in one behaviour
MaxQuery == 1        \* distinct query strings per path (?v=0 .. ?v=MaxQuery)
MaxGen == 2          \* content generations the network serves
MaxObj == 10         \* Cache objects alive at once (named or still referenced)

\* --------------------------------------------------------------- strings
StartsWith(s, p) ==
    /\ Len(p) <= Len(s)
    /\ SubSeq(s, 1, Len(p)) = p

EndsWith(s, e) ==
    /\ Len(e) <= Len(s)
    /\ SubSeq(s, Len(s) - Len(e) + 1, Len(s)) = e

\* ------------------------------------------------------------- constants
CACHE_VERSION == <<"v", "1">>
CACHE_PREFIX == <<"i", "n", "z", "i", "e", "s", "-">>
STATIC_CACHE == CACHE_PREFIX \o <<"s", "t", "a", "t", "i", "c", "-">> \o CACHE_VERSION
DYNAMIC_CACHE == CACHE_PREFIX \o <<"d", "y", "n", "a", "m", "i", "c", "-">> \o CACHE_VERSION
IMAGE_CACHE == CACHE_PREFIX \o <<"i", "m", "a", "g", "e", "s", "-">> \o CACHE_VERSION

MAX_DYNAMIC_CACHE_ITEMS == 50
MAX_IMAGE_CACHE_ITEMS == 100

BASE == <<"/", "i", "n", "z", "i", "e", "s", "/">>
PNG == <<".", "p", "n", "g">>
LOGO_PATH ==
    BASE \o <<"L", "o", "g", "o", "A", "n", "i", "m", "a", "t", "i", "o", "n", "s", "/">>
         \o <<"l", "o", "g", "o", "-", "t", "r", "a", "n", "s", "p", "a", "r", "e", "n", "t">>
         \o PNG

STATIC_ASSETS ==
    << BASE,
       BASE \o <<"a", "b", "o", "u", "t", "/">>,
       BASE \o <<"m", "u", "s", "i", "c", "/">>,
       BASE \o <<"g", "a", "l", "l", "e", "r", "y", "/">>,
       BASE \o <<"p", "l", "a", "y", "/">>,
       LOGO_PATH >>

IMAGE_EXTENSIONS ==
    { <<".", "j", "p", "g">>, <<".", "j", "p", "e", "g">>, PNG,
      <<".", "g", "i", "f">>, <<".", "w", "e", "b", "p">>,
      <<".", "s", "v", "g">>, <<".", "i", "c", "o">> }

STATIC_EXTENSIONS ==
    { <<".", "c", "s", "s">>, <<".", "j", "s">>, <<".", "w", "o", "f", "f">>,
      <<".", "w", "o", "f", "f", "2">>, <<".", "t", "t", "f">> }

\* ---------------------------------------------------------------- values
\* self.location.origin and a third-party origin.
SELF_ORIGIN == "https://wizreet.github.io"
CDN_ORIGIN == "https://cdn.example"

TEXT_HTML == <<"t", "e", "x", "t", "/", "h", "t", "m", "l">>
ANY_TYPE == <<"*", "/", "*">>
\* headers.get("accept") of a request without the header (null).
NO_HEADER == <<>>

Includes(s, sub) ==
    \E i \in 1..(Len(s) - Len(sub) + 1) : SubSeq(s, i, i + Len(sub) - 1) = sub

\* What respondWith can be handed besides a Response.
UNDEFINED == [kind |-> "undefined"]
NULL == [kind |-> "null"]
Response(key, ok, gen) == [kind |-> "response", key |-> key, ok |-> ok, gen |-> gen]
IsResponse(v) == v.kind = "response"

\* ------------------------------------------------------- classification
isImageRequest(url) ==
    \E ext \in IMAGE_EXTENSIONS : EndsWith(url.path, ext)

isStaticAsset(url) ==
    \E ext \in STATIC_EXTENSIONS : EndsWith(url.path, ext)

isPageRequest(request) ==
    \/ request.mode = "navigate"
    \/ /\ request.accept # NO_HEADER
       /\ Includes(request.accept, TEXT_HTML)

\* The branch of the fetch listener a request takes.
Intercepted_AnyMethod(request) == request.origin = SELF_ORIGIN

Intercepted(request) ==
    /\ request.origin = SELF_ORIGIN
    /\ request.method = "GET"

Route_PageFirst(request) ==
    IF ~Intercepted(request) THEN [strategy |-> "passThrough", cacheName |-> <<>>]
    ELSE IF isPageRequest(request) THEN [strategy |-> "networkFirst", cacheName |-> DYNAMIC_CACHE]
    ELSE IF isImageRequest(request) THEN [strategy |-> "cacheFirst", cacheName |-> IMAGE_CACHE]
    ELSE IF isStaticAsset(request) THEN [strategy |-> "cacheFirst", cacheName |-> STATIC_CACHE]
    ELSE [strategy |-> "staleWhileRevalidate", cacheName |-> DYNAMIC_CACHE]

Route(request) ==
    IF ~Intercepted(request) THEN [strategy |-> "passThrough", cacheName |-> <<>>]
    ELSE IF isImageRequest(request) THEN [strategy |-> "cacheFirst", cacheName |-> IMAGE_CACHE]
    ELSE IF isStaticAsset(request) THEN [strategy |-> "cacheFirst", cacheName |-> STATIC_CACHE]
    ELSE IF isPageRequest(request) THEN [strategy |-> "networkFirst", cacheName |-> DYNAMIC_CACHE]
    ELSE [strategy |-> "staleWhileRevalidate", cacheName |-> DYNAMIC_CACHE]

\* ------------------------------------------------------------ Cache API
\* A Cache object is a sequence of entries [key, resp] in insertion order.
CacheIndex(entries, key) ==
    IF \E i \in 1..Len(entries) : entries[i].key = key
    THEN CHOOSE i \in 1..Len(entries) : entries[i].key = key
    ELSE 0

CacheMatch(entries, key) ==
    IF CacheIndex(entries, key) = 0 THEN UNDEFINED
    ELSE entries[CacheIndex(entries, key)].resp

CacheDelete(entries, key) ==
    SelectSeq(entries, LAMBDA e : e.key # key)

\* put replaces an entry of the same key: the old one is removed and the new
\* one appended.
CachePut(entries, key, resp) ==
    Append(CacheDelete(entries, key), [key |-> key, resp |-> resp])

CacheKeys(entries) == [i \in 1..Len(entries) |-> entries[i].key]

RECURSIVE DeleteAll(_, _)
DeleteAll(entries, keys) ==
    IF keys = <<>> THEN entries
    ELSE DeleteAll(CacheDelete(entries, Head(keys)), Tail(keys))

\* ---------------------------------------------------------- the universe
ABOUT_PATH == BASE \o <<"a", "b", "o", "u", "t", "/">>
SCRIPT_PATH == BASE \o <<"a", "p", "p", ".", "j", "s">>
DATA_PATH == BASE \o <<"d", "a", "t", "a">>

\* Paths that look like an asset and are none: no dot before the extension,
\* and a directory named like an image.
NODOT_PATH == BASE \o <<"i", "n", "f", "o", "j", "s">>
DIR_PATH == BASE \o <<"a", ".", "p", "n", "g", "/">>
FONT_PATH == BASE \o <<"f", ".", "w", "o", "f", "f", "2">>

Paths == { BASE, ABOUT_PATH, LOGO_PATH, SCRIPT_PATH, DATA_PATH, NODOT_PATH, DIR_PATH, FONT_PATH }

\* The paths numbered, so that a stored URL is a small value.
PathList ==
    << BASE, ABOUT_PATH, LOGO_PATH, SCRIPT_PATH, DATA_PATH,
       STATIC_ASSETS[3], STATIC_ASSETS[4], STATIC_ASSETS[5],
       NODOT_PATH, DIR_PATH, FONT_PATH >>
PathId(path) == CHOOSE i \in 1..Len(PathList) : PathList[i] = path

\* The identity under which the Cache API stores a request: URL and method.
\* url.pathname excludes the query string; the cache key includes it.
Key(origin, method, path, query) ==
    [origin |-> origin, method |-> method, path |-> PathId(path), query |-> query]
KeyOf(request) == Key(request.origin, request.method, request.path, request.query)

\* The request that caches.match("/inzies/") looks up.
ROOT_KEY == Key(SELF_ORIGIN, "GET", BASE, 0)

Request(origin, method, path, query, mode, accept) ==
    [origin |-> origin, method |-> method, path |-> path, query |-> query,
     mode |-> mode, accept |-> accept]

\* Same-origin GET requests: every path, as a navigation, as a subresource
\* load without an accept header, and as a script-issued fetch accepting HTML.
SameOriginGets ==
    { Request(SELF_ORIGIN, "GET", p, q, ma[1], ma[2]) :
        p \in Paths, q \in 0..MaxQuery,
        ma \in { <<"navigate", TEXT_HTML \o <<",">> \o ANY_TYPE>>,
                 <<"no-cors", NO_HEADER>>,
                 <<"cors", TEXT_HTML>> } }

CrossOriginRequests ==
    { Request(CDN_ORIGIN, "GET", p, 0, ma[1], ma[2]) :
        p \in { LOGO_PATH, SCRIPT_PATH, BASE, DATA_PATH },
        ma \in { <<"navigate", TEXT_HTML>>, <<"no-cors", NO_HEADER>> } }

NonGetRequests ==
    { Request(SELF_ORIGIN, m, p, 0, "cors", a) :
        m \in { "POST", "HEAD" }, p \in { LOGO_PATH, DATA_PATH },
        a \in { TEXT_HTML, NO_HEADER } }

Requests == SameOriginGets \cup CrossOriginRequests \cup NonGetRequests

\* The requests of the lifecycle specification: one or two of every class.
CoreRequests ==
    { Request(SELF_ORIGIN, "GET", BASE, 0, "navigate", TEXT_HTML \o <<",">> \o ANY_TYPE),
      Request(SELF_ORIGIN, "GET", ABOUT_PATH, 0, "navigate", TEXT_HTML \o <<",">> \o ANY_TYPE),
      Request(SELF_ORIGIN, "GET", LOGO_PATH, 0, "no-cors", NO_HEADER),
      Request(SELF_ORIGIN, "GET", SCRIPT_PATH, 0, "no-cors", NO_HEADER),
      Request(SELF_ORIGIN, "GET", DATA_PATH, 0, "cors", NO_HEADER),
      Request(SELF_ORIGIN, "GET", DATA_PATH, 0, "cors", TEXT_HTML),
      Request(CDN_ORIGIN, "GET", LOGO_PATH, 0, "no-cors", NO_HEADER),
      Request(SELF_ORIGIN, "POST", DATA_PATH, 0, "cors", NO_HEADER) }

\* Caches left in CacheStorage by earlier deployments and by other code of
\* the origin.
OLD_STATIC_CACHE == CACHE_PREFIX \o <<"s", "t", "a", "t", "i", "c", "-", "v", "0">>
UNVERSIONED_CACHE == CACHE_PREFIX \o <<"t", "m", "p">>
FOREIGN_CACHE == <<"f", "o", "n", "t", "s", "-", "v", "0">>

ObjIds == 1..MaxObj
Tasks == 1..MaxTasks

\* ----------------------------------------------------------------- state
VARIABLES
    sw,         \* lifecycle of this worker version: state, skipWaiting flag,
                \* and whether an older version still controls open clients
    names,      \* CacheStorage: sequence of [name, id] in creation order
    store,      \* Cache objects: id -> sequence of entries
    net,        \* what the network answers
    tasks,      \* one record per fetch event being handled
    puts,       \* cache.put calls issued and not awaited, still pending
    activation, \* the activate handler's position and the names it listed
    clearing,   \* the CLEAR_CACHE handler's position and the names it listed
    nEvents,    \* events from outside so far
    passed      \* fetch events the listener returned from without respondWith

vars == << sw, names, store, net, tasks, puts, activation, clearing,
           nEvents, passed >>

\* --------------------------------------------------------- CacheStorage
HasName(nm, n) == \E i \in 1..Len(nm) : nm[i].name = n

IdOf(nm, n) ==
    IF HasName(nm, n) THEN nm[CHOOSE i \in 1..Len(nm) : nm[i].name = n].id ELSE 0

NameSet(nm) == { nm[i].name : i \in 1..Len(nm) }

UsedIds(nm, tk, pt) ==
    ({ nm[i].id : i \in 1..Len(nm) }
        \cup { tk[t].handle : t \in Tasks } \cup { tk[t].lhandle : t \in Tasks }
        \cup { p.obj : p \in pt }) \ {0}

FreshId(nm, tk, pt) ==
    CHOOSE i \in ObjIds \ UsedIds(nm, tk, pt) :
        \A j \in ObjIds \ UsedIds(nm, tk, pt) : i <= j

\* caches.open(name): the cache of that name, created empty when absent.
StorageOpen(nm, n, fresh) ==
    IF HasName(nm, n) THEN nm ELSE Append(nm, [name |-> n, id |-> fresh])

\* caches.delete(name)
StorageDelete(nm, n) == SelectSeq(nm, LAMBDA e : e.name # n)

RECURSIVE StorageDeleteAll(_, _)
StorageDeleteAll(nm, list) ==
    IF list = <<>> THEN nm
    ELSE StorageDeleteAll(StorageDelete(nm, Head(list)), Tail(list))

\* caches.keys()
StorageKeys(nm) == [i \in 1..Len(nm) |-> nm[i].name]

\* caches.match(request): the first match over the caches in creation order.
StorageMatch(nm, st, key) ==
    IF \E i \in 1..Len(nm) : CacheIndex(st[nm[i].id], key) # 0
    THEN LET first == CHOOSE i \in 1..Len(nm) :
                        /\ CacheIndex(st[nm[i].id], key) # 0
                        /\ \A j \in 1..(i - 1) : CacheIndex(st[nm[j].id], key) = 0
         IN  CacheMatch(st[nm[first].id], key)
    ELSE UNDEFINED

\* The entries of the cache named n (empty when there is no such cache).
Partition(n) == IF HasName(names, n) THEN store[IdOf(names, n)] ELSE <<>>

\* A Cache object nobody can reach any more holds nothing.
Collect(st, used) == [i \in ObjIds |-> IF i \in used THEN st[i] ELSE <<>>]

\* Every step ends by installing the new storage, tasks and pending writes.
Commit(nm, st, tk, pt) ==
    /\ names' = nm
    /\ tasks' = tk
    /\ puts' = pt
    /\ store' = Collect(st, UsedIds(nm, tk, pt))

\* -------------------------------------------------------------- network
\* fetch(request): a record with failed = TRUE when the promise rejects.
NetFetch(key) ==
    IF net.down THEN [failed |-> TRUE, response |-> UNDEFINED]
    ELSE [failed |-> FALSE,
          response |-> Response(key, PathList[key.path] \notin net.missing, net.gen)]

\* ---------------------------------------------------------------- tasks
PENDING == [state |-> "pending", value |-> UNDEFINED]
Fulfilled(v) == [state |-> "fulfilled", value |-> v]
REJECTED == [state |-> "rejected", value |-> UNDEFINED]

NO_REQUEST == Request("", "", <<>>, 0, "", NO_HEADER)

IdleTask ==
    [pc |-> "idle", req |-> NO_REQUEST, strategy |-> "none", cacheName |-> <<>>,
     handle |-> 0, lhandle |-> 0, cached |-> UNDEFINED, response |-> UNDEFINED,
     toDelete |-> <<>>, result |-> PENDING, trace |-> <<>>]

\* A slot is free when its task has ended (its promise settled and no step of
\* it is left to run).
Free(t) == tasks[t].pc \in { "idle", "done" }

\* The slot of the next task: the first never used one, else the first whose
\* task has ended (0 when every slot is busy).
Slot ==
    IF \E t \in Tasks : tasks[t].pc = "idle"
    THEN CHOOSE t \in Tasks : tasks[t].pc = "idle" /\ \A u \in 1..(t - 1) : tasks[u].pc # "idle"
    ELSE IF \E t \in Tasks : Free(t)
    THEN CHOOSE t \in Tasks : Free(t) /\ \A u \in 1..(t - 1) : ~Free(u)
    ELSE 0

Log(task, what) == Append(task.trace, what)

\* ----------------------------------------------------------------- Init
Entry(key, gen) == [key |-> key, resp |-> Response(key, TRUE, gen)]

\* Entries stored by earlier requests for other URLs of the same path.
Filler(path, first, n) ==
    [i \in 1..n |-> Entry(Key(SELF_ORIGIN, "GET", path, first + i - 1), 0)]

\* What CacheStorage may hold when this worker version is installed:
\* nothing; the caches of an older version and of other code of the origin;
\* or the caches of an earlier installation of a script with the same
\* CACHE_VERSION, filled up by its requests.
OldCaches ==
    << [name |-> OLD_STATIC_CACHE, entries |-> << Entry(ROOT_KEY, 0) >>],
       [name |-> UNVERSIONED_CACHE, entries |-> <<>>],
       [name |-> FOREIGN_CACHE,
        entries |-> << Entry(Key(SELF_ORIGIN, "GET", DATA_PATH, 0), 0) >>] >>

FullCaches ==
    << [name |-> STATIC_CACHE, entries |-> << Entry(ROOT_KEY, 0) >>],
       [name |-> DYNAMIC_CACHE, entries |-> Filler(DATA_PATH, 1, MAX_DYNAMIC_CACHE_ITEMS)],
       [name |-> IMAGE_CACHE, entries |-> Filler(LOGO_PATH, 1, MAX_IMAGE_CACHE_ITEMS)] >>

Leftovers == { <<>>, OldCaches, FullCaches }

NetStates ==
    [down : BOOLEAN, missing : { {}, {ABOUT_PATH, LOGO_PATH} }, gen : 1..MaxGen]

IDLE == [pc |-> "idle", list |-> <<>>]

\* The worker script has been evaluated and its install event dispatched;
\* CacheStorage holds whatever earlier deployments left behind.
Init ==
    /\ sw \in [state : {"installing"}, skip : {FALSE}, old : BOOLEAN]
    /\ \E left \in Leftovers :
          /\ names = [i \in 1..Len(left) |-> [name |-> left[i].name, id |-> i]]
          /\ store = [i \in ObjIds |-> IF i <= Len(left) THEN left[i].entries ELSE <<>>]
    /\ net \in { n \in NetStates : n.gen = 1 /\ n.missing = {} }
    /\ tasks = [t \in Tasks |-> IdleTask]
    /\ puts = {}
    /\ activation = IDLE
    /\ clearing = IDLE
    /\ nEvents = 0
    /\ passed = 0

\* ------------------------------------------------------------- lifecycle
\* install listener, first step: caches.open(STATIC_CACHE)
InstallOpen ==
    /\ sw.state = "installing"
    /\ ObjIds \ UsedIds(names, tasks, puts) # {}
    /\ sw' = [sw EXCEPT !.state = "precaching"]
    /\ Commit(StorageOpen(names, STATIC_CACHE, FreshId(names, tasks, puts)),
              store, tasks, puts)
    /\ UNCHANGED << net, activation, clearing, nEvents, passed >>

RECURSIVE PutAll(_, _)
PutAll(entries, resps) ==
    IF resps = <<>> THEN entries
    ELSE PutAll(CachePut(entries, Head(resps).key, Head(resps)), Tail(resps))

InstallAddAll_NoSkip ==
    /\ sw.state = "precaching"
    /\ LET fetched == [i \in 1..Len(STATIC_ASSETS) |->
                          NetFetch(Key(SELF_ORIGIN, "GET", STATIC_ASSETS[i], 0))]
           allOk == \A i \in 1..Len(fetched) :
                      ~fetched[i].failed /\ fetched[i].response.ok
           id == IdOf(names, STATIC_CACHE)
       IN  IF allOk
           THEN /\ sw' = [sw EXCEPT !.state = "installed"]
                /\ IF id = 0
                   THEN Commit(names, store, tasks, puts)
                   ELSE Commit(names,
                               [store EXCEPT ![id] =
                                   PutAll(@, [i \in 1..Len(fetched) |-> fetched[i].response])],
                               tasks, puts)
           ELSE /\ sw' = [sw EXCEPT !.state = "redundant"]
                /\ Commit(names, store, tasks, puts)
    /\ UNCHANGED << net, activation, clearing, nEvents, passed >>

InstallAddAll_Partial ==
    /\ sw.state = "precaching"
    /\ LET fetched == [i \in 1..Len(STATIC_ASSETS) |->
                          NetFetch(Key(SELF_ORIGIN, "GET", STATIC_ASSETS[i], 0))]
           allOk == \A i \in 1..Len(fetched) :
                      ~fetched[i].failed /\ fetched[i].response.ok
           good == SelectSeq(fetched, LAMBDA f : ~f.failed /\ f.response.ok)
           id == IdOf(names, STATIC_CACHE)
       IN  /\ sw' = IF allOk THEN [sw EXCEPT !.state = "installed", !.skip = TRUE]
                    ELSE [sw EXCEPT !.state = "redundant"]
           /\ IF id = 0
              THEN Commit(names, store, tasks, puts)
              ELSE Commit(names,
                          [store EXCEPT ![id] =
                              PutAll(@, [i \in 1..Len(good) |-> good[i].response])],
                          tasks, puts)
    /\ UNCHANGED << net, activation, clearing, nEvents, passed >>

\* cache.addAll(STATIC_ASSETS): every path is fetched; the entries are stored
\* only when every fetch resolved with an ok response, otherwise the promise
\* rejects and nothing is stored. Then skipWaiting().
InstallAddAll ==
    /\ sw.state = "precaching"
    /\ LET fetched == [i \in 1..Len(STATIC_ASSETS) |->
                          NetFetch(Key(SELF_ORIGIN, "GET", STATIC_ASSETS[i], 0))]
           allOk == \A i \in 1..Len(fetched) :
                      ~fetched[i].failed /\ fetched[i].response.ok
           id == IdOf(names, STATIC_CACHE)
       IN  IF allOk
           THEN /\ sw' = [sw EXCEPT !.state = "installed", !.skip = TRUE]
                /\ IF id = 0
                   THEN Commit(names, store, tasks, puts)
                   ELSE Commit(names,
                               [store EXCEPT ![id] =
                                   PutAll(@, [i \in 1..Len(fetched) |-> fetched[i].response])],
                               tasks, puts)
           ELSE /\ sw' = [sw EXCEPT !.state = "redundant"]
                /\ Commit(names, store, tasks, puts)
    /\ UNCHANGED << net, activation, clearing, nEvents, passed >>

ActivateEvent_AfterFailure ==
    /\ sw.state \in { "installed", "redundant" }
    /\ sw.skip \/ ~sw.old
    /\ sw' = [sw EXCEPT !.state = "activating", !.old = FALSE]
    /\ activation' = [pc |-> "keys", list |-> <<>>]
    /\ UNCHANGED << names, store, net, tasks, puts, clearing, nEvents, passed >>

\* The browser activates an installed worker once no older version controls a
\* client, or at once when skipWaiting() was called.
ActivateEvent ==
    /\ sw.state = "installed"
    /\ sw.skip \/ ~sw.old
    /\ sw' = [sw EXCEPT !.state = "activating", !.old = FALSE]
    /\ activation' = [pc |-> "keys", list |-> <<>>]
    /\ UNCHANGED << names, store, net, tasks, puts, clearing, nEvents, passed >>

\* activate listener: caches.keys() resolves
ActivateKeys ==
    /\ activation.pc = "keys"
    /\ activation' = [pc |-> "delete", list |-> StorageKeys(names)]
    /\ UNCHANGED << sw, names, store, net, tasks, puts, clearing, nEvents, passed >>

IsOldCache_AnyVersion(name) == StartsWith(name, CACHE_PREFIX)

IsOldCache_AnyPrefix(name) == ~EndsWith(name, CACHE_VERSION)

\* name.startsWith("inzies-") && !name.endsWith(CACHE_VERSION)
IsOldCache(name) ==
    /\ StartsWith(name, CACHE_PREFIX)
    /\ ~EndsWith(name, CACHE_VERSION)

\* activate listener: the old caches are deleted, then clients.claim()
ActivateDelete ==
    /\ activation.pc = "delete"
    /\ activation' = IDLE
    /\ sw' = [sw EXCEPT !.state = "activated"]
    /\ Commit(StorageDeleteAll(names, SelectSeq(activation.list, IsOldCache)),
              store, tasks, puts)
    /\ UNCHANGED << net, clearing, nEvents, passed >>

\* The clients of the older version close.
ClientsClose ==
    /\ sw.old
    /\ sw.state \in { "installing", "precaching", "installed" }
    /\ sw' = [sw EXCEPT !.old = FALSE]
    /\ UNCHANGED << names, store, net, tasks, puts, activation, clearing,
                    nEvents, passed >>

\* ---------------------------------------------------------- fetch event
Others == << net, activation, clearing, passed >>

\* The step of task t that replaces its record by `next`.
Step(t, next, nm, st, pt) ==
    /\ Commit(nm, st, [tasks EXCEPT ![t] = next], pt)
    /\ UNCHANGED << sw, nEvents >>
    /\ UNCHANGED Others

\* The promise handed to respondWith settles; the task has ended.
Settle(task, result) ==
    [task EXCEPT !.pc = "done", !.result = result, !.handle = 0, !.lhandle = 0]

\* fetch listener: returns without respondWith for a cross-origin or non-GET
\* request, else hands respondWith the promise of the selected strategy.
FetchEvent(request) ==
    /\ sw.state = "activated"
    /\ nEvents < MaxEvents
    /\ nEvents' = nEvents + 1
    /\ IF Route(request).strategy = "passThrough"
       THEN /\ passed' = passed + 1
            /\ UNCHANGED << sw, names, store, net, tasks, puts, activation, clearing >>
       ELSE /\ \E t \in Tasks :
                 /\ t = Slot
                 /\ Commit(names, store,
                           [tasks EXCEPT ![t] =
                               [IdleTask EXCEPT !.pc = "open", !.req = request,
                                                !.strategy = Route(request).strategy,
                                                !.cacheName = Route(request).cacheName]],
                           puts)
            /\ UNCHANGED << sw >>
            /\ UNCHANGED Others

Open_OneAtATime(t) ==
    LET task == tasks[t]
        nm == StorageOpen(names, task.cacheName, FreshId(names, tasks, puts))
    IN  /\ task.pc = "open"
        /\ \A u \in Tasks \ {t} : Free(u)
        /\ ObjIds \ UsedIds(names, tasks, puts) # {}
        /\ Step(t, [task EXCEPT
                       !.handle = IdOf(nm, task.cacheName),
                       !.pc = CASE task.strategy = "cacheFirst" -> "cf_match"
                                [] task.strategy = "networkFirst" -> "nf_fetch"
                                [] OTHER -> "swr_match",
                       !.trace = IF task.strategy = "networkFirst"
                                 THEN Log(task, "fetch") ELSE @],
                nm, store, puts)

\* const cache = await caches.open(cacheName)   (first line of each strategy)
Open(t) ==
    LET task == tasks[t]
        nm == StorageOpen(names, task.cacheName, FreshId(names, tasks, puts))
    IN  /\ task.pc = "open"
        /\ ObjIds \ UsedIds(names, tasks, puts) # {}
        /\ Step(t, [task EXCEPT
                       !.handle = IdOf(nm, task.cacheName),
                       !.pc = CASE task.strategy = "cacheFirst" -> "cf_match"
                                [] task.strategy = "networkFirst" -> "nf_fetch"
                                [] OTHER -> "swr_match",
                       !.trace = IF task.strategy = "networkFirst"
                                 THEN Log(task, "fetch") ELSE @],
                nm, store, puts)

\* ----------------------------------------------------------- cacheFirst
CacheFirstMatch_FetchAnyway(t) ==
    LET task == tasks[t]
    IN  /\ task.pc = "cf_match"
        /\ Step(t, [task EXCEPT !.pc = "cf_fetch",
                                !.trace = Log(task, "lookup") \o <<"fetch">>],
                names, store, puts)

\* const cached = await cache.match(request); a hit is returned, a miss
\* issues fetch(request).
CacheFirstMatch(t) ==
    LET task == tasks[t]
        cached == CacheMatch(store[task.handle], KeyOf(task.req))
    IN  /\ task.pc = "cf_match"
        /\ IF IsResponse(cached)
           THEN Step(t, Settle([task EXCEPT !.cached = cached,
                                            !.trace = Log(task, "lookup")],
                               Fulfilled(cached)),
                     names, store, puts)
           ELSE Step(t, [task EXCEPT !.pc = "cf_fetch",
                                     !.trace = Log(task, "lookup") \o <<"fetch">>],
                     names, store, puts)

CacheFirstFetch_AwaitPut(t) ==
    LET task == tasks[t]
        got == NetFetch(KeyOf(task.req))
    IN  /\ task.pc = "cf_fetch"
        /\ IF got.failed
           THEN Step(t, [task EXCEPT !.pc = "cf_fallback"], names, store, puts)
           ELSE IF got.response.ok
           THEN Step(t, [task EXCEPT !.pc = "cf_put", !.response = got.response,
                                     !.trace = Log(task, "put")],
                     names, store,
                     puts \cup { [obj |-> task.handle, key |-> KeyOf(task.req),
                                  resp |-> got.response] })
           ELSE Step(t, Settle([task EXCEPT !.response = got.response],
                               Fulfilled(got.response)),
                     names, store, puts)

CacheFirstFetch_NoPut(t) ==
    LET task == tasks[t]
        got == NetFetch(KeyOf(task.req))
    IN  /\ task.pc = "cf_fetch"
        /\ IF got.failed
           THEN Step(t, [task EXCEPT !.pc = "cf_fallback"], names, store, puts)
           ELSE Step(t, Settle([task EXCEPT !.response = got.response],
                               Fulfilled(got.response)),
                     names, store, puts)

\* The fetch settles: an ok response is put (not awaited) and the response
\* returned; a rejection leads to caches.match("/inzies/").
CacheFirstFetch(t) ==
    LET task == tasks[t]
        got == NetFetch(KeyOf(task.req))
    IN  /\ task.pc = "cf_fetch"
        /\ IF got.failed
           THEN Step(t, [task EXCEPT !.pc = "cf_fallback"], names, store, puts)
           ELSE IF got.response.ok
           THEN Step(t, Settle([task EXCEPT !.response = got.response,
                                            !.trace = Log(task, "put")],
                               Fulfilled(got.response)),
                     names, store,
                     puts \cup { [obj |-> task.handle, key |-> KeyOf(task.req),
                                  resp |-> got.response] })
           ELSE Step(t, Settle([task EXCEPT !.response = got.response],
                               Fulfilled(got.response)),
                     names, store, puts)

CacheFirstFallback_Retry(t) ==
    LET task == tasks[t]
    IN  /\ task.pc = "cf_fallback"
        /\ Step(t, [task EXCEPT !.pc = "cf_fetch", !.trace = Log(task, "fetch")],
                names, store, puts)

CacheFirstFallback_Rethrow(t) ==
    LET task == tasks[t]
    IN  /\ task.pc = "cf_fallback"
        /\ Step(t, Settle([task EXCEPT !.trace = Log(task, "root")], REJECTED),
                names, store, puts)

\* return caches.match("/inzies/")
CacheFirstFallback(t) ==
    LET task == tasks[t]
    IN  /\ task.pc = "cf_fallback"
        /\ Step(t, Settle([task EXCEPT !.trace = Log(task, "root")],
                          Fulfilled(StorageMatch(names, store, ROOT_KEY))),
                names, store, puts)

\* A cache.put that was not awaited completes.
BackgroundPut(p) ==
    /\ p \in puts
    /\ Commit(names, [store EXCEPT ![p.obj] = CachePut(@, p.key, p.resp)],
              tasks, puts \ {p})
    /\ UNCHANGED << sw, nEvents >>
    /\ UNCHANGED Others

\* ------------------------------------------------------- limitCacheSize
LimitToDelete_Newest(keys, maxItems) ==
    IF Len(keys) > maxItems THEN SubSeq(keys, maxItems + 1, Len(keys)) ELSE <<>>

\* keys.slice(0, keys.length - maxItems) when keys.length > maxItems
LimitToDelete(keys, maxItems) ==
    IF Len(keys) > maxItems THEN SubSeq(keys, 1, Len(keys) - maxItems) ELSE <<>>

\* const cache = await caches.open(cacheName)
LimitOpen(t) ==
    LET task == tasks[t]
        nm == StorageOpen(names, task.cacheName, FreshId(names, tasks, puts))
    IN  /\ task.pc = "lim_open"
        /\ ObjIds \ UsedIds(names, tasks, puts) # {}
        /\ Step(t, [task EXCEPT !.lhandle = IdOf(nm, task.cacheName), !.pc = "lim_keys"],
                nm, store, puts)

\* const keys = await cache.keys(); the surplus keys are deleted, or the
\* function returns and networkFirst returns its response.
LimitKeys(t) ==
    LET task == tasks[t]
        toDelete == LimitToDelete(CacheKeys(store[task.lhandle]), MAX_DYNAMIC_CACHE_ITEMS)
    IN  /\ task.pc = "lim_keys"
        /\ IF toDelete = <<>>
           THEN Step(t, Settle([task EXCEPT !.trace = Log(task, "limit")],
                               Fulfilled(task.response)),
                     names, store, puts)
           ELSE Step(t, [task EXCEPT !.pc = "lim_delete", !.toDelete = toDelete],
                     names, store, puts)

\* await Promise.all(toDelete.map((key) => cache.delete(key)))
LimitDelete(t) ==
    LET task == tasks[t]
    IN  /\ task.pc = "lim_delete"
        /\ Step(t, Settle([task EXCEPT !.trace = Log(task, "limit")],
                          Fulfilled(task.response)),
                names,
                [store EXCEPT ![task.lhandle] = DeleteAll(@, task.toDelete)],
                puts)

\* --------------------------------------------------------- networkFirst
NetworkFirstFetch_StoreAny(t) ==
    LET task == tasks[t]
        got == NetFetch(KeyOf(task.req))
    IN  /\ task.pc = "nf_fetch"
        /\ IF got.failed
           THEN Step(t, [task EXCEPT !.pc = "nf_match"], names, store, puts)
           ELSE Step(t, [task EXCEPT !.pc = "lim_open", !.response = got.response,
                                     !.trace = Log(task, "put")],
                     names, store,
                     puts \cup { [obj |-> task.handle, key |-> KeyOf(task.req),
                                  resp |-> got.response] })

NetworkFirstFetch_NoPut(t) ==
    LET task == tasks[t]
        got == NetFetch(KeyOf(task.req))
    IN  /\ task.pc = "nf_fetch"
        /\ IF got.failed
           THEN Step(t, [task EXCEPT !.pc = "nf_match"], names, store, puts)
           ELSE IF got.response.ok
           THEN Step(t, [task EXCEPT !.pc = "lim_open", !.response = got.response,
                                     !.trace = Log(task, "put")],
                     names, store, puts)
           ELSE Step(t, Settle([task EXCEPT !.response = got.response],
                               Fulfilled(got.response)),
                     names, store, puts)

\* The fetch settles: an ok response is put (not awaited) and the size limit
\* awaited; another response is returned as it is; a rejection leads to
\* cache.match(request).
NetworkFirstFetch(t) ==
    LET task == tasks[t]
        got == NetFetch(KeyOf(task.req))
    IN  /\ task.pc = "nf_fetch"
        /\ IF got.failed
           THEN Step(t, [task EXCEPT !.pc = "nf_match"], names, store, puts)
           ELSE IF got.response.ok
           THEN Step(t, [task EXCEPT !.pc = "lim_open", !.response = got.response,
                                     !.trace = Log(task, "put")],
                     names, store,
                     puts \cup { [obj |-> task.handle, key |-> KeyOf(task.req),
                                  resp |-> got.response] })
           ELSE Step(t, Settle([task EXCEPT !.response = got.response],
                               Fulfilled(got.response)),
                     names, store, puts)

\* catch: const cached = await cache.match(request); a hit is returned, a
\* miss leads to caches.match("/inzies/") for a page request, else rethrows.
NetworkFirstMatch(t) ==
    LET task == tasks[t]
        cached == CacheMatch(store[task.handle], KeyOf(task.req))
        looked == [task EXCEPT !.cached = cached, !.trace = Log(task, "lookup")]
    IN  /\ task.pc = "nf_match"
        /\ IF IsResponse(cached)
           THEN Step(t, Settle(looked, Fulfilled(cached)), names, store, puts)
           ELSE IF isPageRequest(task.req)
           THEN Step(t, [looked EXCEPT !.pc = "nf_fallback"], names, store, puts)
           ELSE Step(t, Settle(looked, REJECTED), names, store, puts)

\* return caches.match("/inzies/")
NetworkFirstFallback(t) ==
    LET task == tasks[t]
    IN  /\ task.pc = "nf_fallback"
        /\ Step(t, Settle([task EXCEPT !.trace = Log(task, "root")],
                          Fulfilled(StorageMatch(names, store, ROOT_KEY))),
                names, store, puts)

\* ------------------------------------------------- staleWhileRevalidate
StaleMatch_AwaitFetch(t) ==
    LET task == tasks[t]
        cached == CacheMatch(store[task.handle], KeyOf(task.req))
    IN  /\ task.pc = "swr_match"
        /\ Step(t, [task EXCEPT !.pc = "swr_fetch", !.cached = cached,
                                !.trace = Log(task, "lookup") \o <<"fetch">>],
                names, store, puts)

\* const cached = await cache.match(request); fetch(request) is issued and
\* `cached || fetchPromise` returned: a hit settles the promise at once.
StaleMatch(t) ==
    LET task == tasks[t]
        cached == CacheMatch(store[task.handle], KeyOf(task.req))
    IN  /\ task.pc = "swr_match"
        /\ Step(t, [task EXCEPT !.pc = "swr_fetch", !.cached = cached,
                                !.trace = Log(task, "lookup") \o <<"fetch">>,
                                !.result = IF IsResponse(cached) THEN Fulfilled(cached)
                                           ELSE PENDING],
                names, store, puts)

\* The fetch settles: .then puts an ok response (not awaited) and passes the
\* response on, .catch turns a rejection into null.
StaleFetch(t) ==
    LET task == tasks[t]
        got == NetFetch(KeyOf(task.req))
        value == IF got.failed THEN NULL ELSE got.response
        write == ~got.failed /\ got.response.ok
    IN  /\ task.pc = "swr_fetch"
        /\ Step(t, Settle([task EXCEPT !.response = value,
                                       !.trace = IF write THEN Log(task, "put") ELSE @],
                          IF task.result = PENDING THEN Fulfilled(value) ELSE task.result),
                names, store,
                IF write
                THEN puts \cup { [obj |-> task.handle, key |-> KeyOf(task.req),
                                  resp |-> got.response] }
                ELSE puts)

\* -------------------------------------------------------- message event
\* event.data of the messages the page may post: the two commands, another
\* type, data without a type, and no data at all.
Messages ==
    { [data |-> TRUE, type |-> "SKIP_WAITING"], [data |-> TRUE, type |-> "CLEAR_CACHE"],
      [data |-> TRUE, type |-> "PING"], [data |-> TRUE, type |-> ""],
      [data |-> FALSE, type |-> ""] }

\* event.data?.type
TypeOf(msg) == IF msg.data THEN msg.type ELSE ""

MessageEvent_NoSkip(msg) ==
    /\ sw.state # "redundant"
    /\ nEvents < MaxEvents
    /\ TypeOf(msg) = "CLEAR_CACHE" => clearing.pc = "idle"
    /\ nEvents' = nEvents + 1
    /\ sw' = sw
    /\ clearing' = IF TypeOf(msg) = "CLEAR_CACHE" THEN [pc |-> "keys", list |-> <<>>]
                   ELSE clearing
    /\ UNCHANGED << names, store, net, tasks, puts, activation, passed >>

MessageEvent_AnyTypeClears(msg) ==
    /\ sw.state # "redundant"
    /\ nEvents < MaxEvents
    /\ TypeOf(msg) # "SKIP_WAITING" => clearing.pc = "idle"
    /\ nEvents' = nEvents + 1
    /\ sw' = IF TypeOf(msg) = "SKIP_WAITING" THEN [sw EXCEPT !.skip = TRUE] ELSE sw
    /\ clearing' = IF TypeOf(msg) # "SKIP_WAITING" THEN [pc |-> "keys", list |-> <<>>]
                   ELSE clearing
    /\ UNCHANGED << names, store, net, tasks, puts, activation, passed >>

\* message listener: skipWaiting() for SKIP_WAITING; caches.keys() is called
\* for CLEAR_CACHE and its continuation runs later.
MessageEvent(msg) ==
    /\ sw.state # "redundant"
    /\ nEvents < MaxEvents
    /\ TypeOf(msg) = "CLEAR_CACHE" => clearing.pc = "idle"
    /\ nEvents' = nEvents + 1
    /\ sw' = IF TypeOf(msg) = "SKIP_WAITING" THEN [sw EXCEPT !.skip = TRUE] ELSE sw
    /\ clearing' = IF TypeOf(msg) = "CLEAR_CACHE" THEN [pc |-> "keys", list |-> <<>>]
                   ELSE clearing
    /\ UNCHANGED << names, store, net, tasks, puts, activation, passed >>

\* caches.keys() resolves with the names
ClearKeys ==
    /\ clearing.pc = "keys"
    /\ clearing' = [pc |-> "delete", list |-> StorageKeys(names)]
    /\ UNCHANGED << sw, names, store, net, tasks, puts, activation,
                    nEvents, passed >>

ClearDelete_CurrentOnly ==
    /\ clearing.pc = "delete"
    /\ clearing' = IDLE
    /\ Commit(StorageDeleteAll(names,
                  SelectSeq(clearing.list, LAMBDA n : EndsWith(n, CACHE_VERSION))),
              store, tasks, puts)
    /\ UNCHANGED << sw, net, activation, nEvents, passed >>

ClearDelete_KeepAll ==
    /\ clearing.pc = "delete"
    /\ clearing' = IDLE
    /\ Commit(names, store, tasks, puts)
    /\ UNCHANGED << sw, net, activation, nEvents, passed >>

\* names.forEach((name) => caches.delete(name))
ClearDelete ==
    /\ clearing.pc = "delete"
    /\ clearing' = IDLE
    /\ Commit(StorageDeleteAll(names, clearing.list), store, tasks, puts)
    /\ UNCHANGED << sw, net, activation, nEvents, passed >>

\* ---------------------------------------------------------- environment
\* The network goes down or comes back, a set of paths starts or stops
\* answering 404, or the site publishes new content.
NetChange ==
    /\ nEvents < MaxEvents
    /\ nEvents' = nEvents + 1
    /\ net' \in { [net EXCEPT !.down = ~@],
                 [net EXCEPT !.missing = IF @ = {} THEN {ABOUT_PATH, LOGO_PATH} ELSE {}],
                 [net EXCEPT !.gen = IF @ < MaxGen THEN @ + 1 ELSE @] } \ {net}
    /\ UNCHANGED << sw, names, store, tasks, puts, activation, clearing, passed >>

\* ------------------------------------------------------------------ Next
Next ==
    \/ InstallOpen
    \/ InstallAddAll
    \/ ActivateEvent
    \/ ActivateKeys
    \/ ActivateDelete
    \/ ClientsClose
    \/ \E request \in CoreRequests : FetchEvent(request)
    \/ \E t \in Tasks : Open(t)
    \/ \E t \in Tasks : CacheFirstMatch(t)
    \/ \E t \in Tasks : CacheFirstFetch(t)
    \/ \E t \in Tasks : CacheFirstFallback(t)
    \/ \E t \in Tasks : NetworkFirstFetch(t)
    \/ \E t \in Tasks : NetworkFirstMatch(t)
    \/ \E t \in Tasks : NetworkFirstFallback(t)
    \/ \E t \in Tasks : LimitOpen(t)
    \/ \E t \in Tasks : LimitKeys(t)
    \/ \E t \in Tasks : LimitDelete(t)
    \/ \E t \in Tasks : StaleMatch(t)
    \/ \E t \in Tasks : StaleFetch(t)
    \/ \E p \in puts : BackgroundPut(p)
    \/ \E msg \in Messages : MessageEvent(msg)
    \/ ClearKeys
    \/ ClearDelete
    \/ NetChange

Spec == Init /\ [][Next]_vars

\* -------------------------------------------- one request at a time
\* The worker is active and handles one fetch event, of any request of the
\* universe, on the storage a clean install leaves, on the storage CLEAR_CACHE
\* leaves, or on partitions filled up by earlier requests.
Precached ==
    [i \in 1..Len(STATIC_ASSETS) |-> Entry(Key(SELF_ORIGIN, "GET", STATIC_ASSETS[i], 0), 1)]

ServedStorages ==
    { <<>>,
      << [name |-> STATIC_CACHE, entries |-> Precached] >>,
      << [name |-> STATIC_CACHE, entries |-> Precached],
         FullCaches[2], FullCaches[3] >> }

InitOne ==
    /\ sw = [state |-> "activated", skip |-> TRUE, old |-> FALSE]
    /\ \E left \in ServedStorages :
          /\ names = [i \in 1..Len(left) |-> [name |-> left[i].name, id |-> i]]
          /\ store = [i \in ObjIds |-> IF i <= Len(left) THEN left[i].entries ELSE <<>>]
    /\ net \in NetStates
    /\ tasks = [t \in Tasks |-> IdleTask]
    /\ puts = {}
    /\ activation = IDLE
    /\ clearing = IDLE
    /\ nEvents = MaxEvents - 1
    /\ passed = 0

NextOne ==
    \/ \E request \in Requests : FetchEvent(request)
    \/ \E t \in Tasks : Open(t)
    \/ \E t \in Tasks : CacheFirstMatch(t)
    \/ \E t \in Tasks : CacheFirstFetch(t)
    \/ \E t \in Tasks : CacheFirstFallback(t)
    \/ \E t \in Tasks : NetworkFirstFetch(t)
    \/ \E t \in Tasks : NetworkFirstMatch(t)
    \/ \E t \in Tasks : NetworkFirstFallback(t)
    \/ \E t \in Tasks : LimitOpen(t)
    \/ \E t \in Tasks : LimitKeys(t)
    \/ \E t \in Tasks : LimitDelete(t)
    \/ \E t \in Tasks : StaleMatch(t)
    \/ \E t \in Tasks : StaleFetch(t)
    \/ \E p \in puts : BackgroundPut(p)

SpecOne == InitOne /\ [][NextOne]_vars

\* ------------------------------------------ requests after CLEAR_CACHE
\* The worker is active on filled partitions and the message listener has
\* just run for a CLEAR_CACHE command (caches.keys() is pending); image
\* requests follow, one for a cached image and one for a new one.
ImageRequests ==
    { Request(SELF_ORIGIN, "GET", LOGO_PATH, q, "no-cors", NO_HEADER) : q \in 0..1 }

InitClear ==
    /\ sw = [state |-> "activated", skip |-> TRUE, old |-> FALSE]
    /\ names = [i \in 1..3 |-> [name |-> FullCaches[i].name, id |-> i]]
    /\ store = [i \in ObjIds |-> IF i = 1 THEN Precached
                                 ELSE IF i <= 3 THEN FullCaches[i].entries ELSE <<>>]
    /\ net \in NetStates
    /\ tasks = [t \in Tasks |-> IdleTask]
    /\ puts = {}
    /\ activation = IDLE
    /\ clearing = [pc |-> "keys", list |-> <<>>]
    /\ nEvents = 0
    /\ passed = 0

NextClear ==
    \/ \E request \in ImageRequests : FetchEvent(request)
    \/ \E t \in Tasks : Open(t)
    \/ \E t \in Tasks : CacheFirstMatch(t)
    \/ \E t \in Tasks : CacheFirstFetch(t)
    \/ \E t \in Tasks : CacheFirstFallback(t)
    \/ \E p \in puts : BackgroundPut(p)
    \/ ClearKeys
    \/ ClearDelete

SpecClear == InitClear /\ [][NextClear]_vars

\* ------------------------------------------------- concurrent requests
\* The worker is active and handles two fetch events at once, of one request
\* of each class. Every continuation of a task other than the first runs once
\* it can (its fetch and its cache operations settle); the first task may
\* stop anywhere for good: its fetch is slow or never settles.
ClassRequests ==
    { Request(SELF_ORIGIN, "GET", LOGO_PATH, 0, "no-cors", NO_HEADER),
      Request(SELF_ORIGIN, "GET", ABOUT_PATH, 0, "navigate", TEXT_HTML \o <<",">> \o ANY_TYPE),
      Request(SELF_ORIGIN, "GET", DATA_PATH, 0, "cors", NO_HEADER) }

InitFair ==
    /\ sw = [state |-> "activated", skip |-> TRUE, old |-> FALSE]
    /\ \E left \in ServedStorages :
          /\ names = [i \in 1..Len(left) |-> [name |-> left[i].name, id |-> i]]
          /\ store = [i \in ObjIds |-> IF i <= Len(left) THEN left[i].entries ELSE <<>>]
    /\ net \in NetStates
    /\ tasks = [t \in Tasks |-> IdleTask]
    /\ puts = {}
    /\ activation = IDLE
    /\ clearing = IDLE
    /\ nEvents = MaxEvents - 2
    /\ passed = 0

\* The continuations of task t.
TaskStep(t) ==
    \/ Open(t)
    \/ CacheFirstMatch(t)
    \/ CacheFirstFetch(t)
    \/ CacheFirstFallback(t)
    \/ NetworkFirstFetch(t)
    \/ NetworkFirstMatch(t)
    \/ NetworkFirstFallback(t)
    \/ LimitOpen(t)
    \/ LimitKeys(t)
    \/ LimitDelete(t)
    \/ StaleMatch(t)
    \/ StaleFetch(t)

NextFair ==
    \/ \E request \in ClassRequests : FetchEvent(request)
    \/ \E t \in Tasks : Open(t)
    \/ \E t \in Tasks : CacheFirstMatch(t)
    \/ \E t \in Tasks : CacheFirstFetch(t)
    \/ \E t \in Tasks : CacheFirstFallback(t)
    \/ \E t \in Tasks : NetworkFirstFetch(t)
    \/ \E t \in Tasks : NetworkFirstMatch(t)
    \/ \E t \in Tasks : NetworkFirstFallback(t)
    \/ \E t \in Tasks : LimitOpen(t)
    \/ \E t \in Tasks : LimitKeys(t)
    \/ \E t \in Tasks : LimitDelete(t)
    \/ \E t \in Tasks : StaleMatch(t)
    \/ \E t \in Tasks : StaleFetch(t)
    \/ \E p \in puts : BackgroundPut(p)

SpecFair ==
    /\ InitFair
    /\ [][NextFair]_vars
    /\ \A t \in Tasks \ {1} : WF_vars(TaskStep(t))

\* ----------------------------------------------------------- lifecycle
\* Install and activation of this worker version with the messages of the
\* page and the changes of the network, before any fetch event. The browser
\* dispatches the install and activate events and runs their continuations
\* once it can; whether the clients of the older version ever close, and
\* whether a CLEAR_CACHE continuation runs, is left open.
NextLife ==
    \/ InstallOpen
    \/ InstallAddAll
    \/ ActivateEvent
    \/ ActivateKeys
    \/ ActivateDelete
    \/ ClientsClose
    \/ \E msg \in Messages : MessageEvent(msg)
    \/ ClearKeys
    \/ ClearDelete
    \/ NetChange

SpecLife ==
    /\ Init
    /\ [][NextLife]_vars
    /\ WF_vars(InstallOpen)
    /\ WF_vars(InstallAddAll)
    /\ WF_vars(ActivateEvent)
    /\ WF_vars(ActivateKeys)
    /\ WF_vars(ActivateDelete)

\* =================================================================== claims
Settled(t) == tasks[t].result.state # "pending"
Quiescent == puts = {} /\ \A t \in Tasks : Free(t)

\* C1: the promise handed to respondWith for an intercepted request always
\* settles with a Response: it is never rejected and never resolves to
\* undefined or null, whatever the class, the network outcome and the
\* contents of the partitions.
C1_AlwaysAResponse ==
    \A t \in Tasks :
        Settled(t) =>
            /\ tasks[t].result.state = "fulfilled"
            /\ IsResponse(tasks[t].result.value)

\* C2: a cross-origin request and a non-GET request pass through untouched,
\* whatever their path, mode and accept header: the listener starts no task
\* (no lookup, no fetch, no response) and leaves CacheStorage and every
\* Cache as they are; so no entry is ever keyed by such a request.
C2_Foreign(request) == request.origin # SELF_ORIGIN \/ request.method # "GET"

C2_PassThrough ==
    /\ [][\A request \in Requests :
            (C2_Foreign(request) /\ FetchEvent(request)) =>
                /\ passed' = passed + 1
                /\ UNCHANGED << names, store, tasks, puts >>]_vars
    /\ [](\A i \in ObjIds : \A j \in 1..Len(store[i]) :
            /\ store[i][j].key.origin = SELF_ORIGIN
            /\ store[i][j].key.method = "GET")

C2_Witness ==
    /\ passed = 1
    /\ nEvents = MaxEvents
    /\ tasks = [t \in Tasks |-> IdleTask]
    /\ Len(Partition(IMAGE_CACHE)) = MAX_IMAGE_CACHE_ITEMS

\* C3: the class of an intercepted request is decided in the order image
\* extension, static extension, page, other: the logo (.png) is handled
\* cache-first on the Image partition and the script (.js) and the font
\* (.woff2) cache-first on the Static partition even as navigations; of the
\* other paths (among them /inzies/infojs and /inzies/a.png/) a navigation or
\* a request accepting text/html is handled network-first and the rest
\* stale-while-revalidate, both on the Dynamic partition.
C3_Expected(request) ==
    IF request.path = LOGO_PATH
    THEN [strategy |-> "cacheFirst", cacheName |-> IMAGE_CACHE]
    ELSE IF request.path \in { SCRIPT_PATH, FONT_PATH }
    THEN [strategy |-> "cacheFirst", cacheName |-> STATIC_CACHE]
    ELSE IF request.mode = "navigate" \/ request.accept \in { TEXT_HTML, TEXT_HTML \o <<",">> \o ANY_TYPE }
    THEN [strategy |-> "networkFirst", cacheName |-> DYNAMIC_CACHE]
    ELSE [strategy |-> "staleWhileRevalidate", cacheName |-> DYNAMIC_CACHE]

C4_PartitionOf(request) ==
    IF request.path = LOGO_PATH THEN Partition(IMAGE_CACHE) ELSE Partition(STATIC_CACHE)

C4_LookupBeforeNetwork ==
    /\ [][\A t \in Tasks :
            CacheFirstMatch(t) =>
                LET entry == CacheMatch(C4_PartitionOf(tasks[t].req), KeyOf(tasks[t].req))
                IN  IF IsResponse(entry)
                    THEN /\ tasks'[t].result = Fulfilled(entry)
                         /\ tasks'[t].trace = <<"lookup">>
                         /\ tasks'[t].pc = "done"
                    ELSE /\ tasks'[t].result = PENDING
                         /\ tasks'[t].trace = <<"lookup", "fetch">>]_vars
    /\ [](\A t \in Tasks :
            tasks[t].req.path \in { LOGO_PATH, SCRIPT_PATH, FONT_PATH } =>
                tasks[t].trace \in { <<>>, <<"lookup">>, <<"lookup", "fetch">>,
                                     <<"lookup", "fetch", "put">>,
                                     <<"lookup", "fetch", "root">> })

C4_Witness ==
    \E t \in Tasks :
        /\ tasks[t].strategy = "cacheFirst"
        /\ tasks[t].pc = "done"
        /\ tasks[t].trace = <<"lookup">>
        /\ tasks[t].result = Fulfilled(Response(KeyOf(tasks[t].req), TRUE, 0))
        /\ net.gen = 1 /\ ~net.down

\* C5: network-first issues the fetch before any lookup in the Dynamic
\* partition and looks an entry up only after the fetch failed; a fetch that
\* succeeds with an ok response issues the write of that response under the
\* request's key, and the completed write leaves it in the Dynamic partition.
C5_IsPage(request) ==
    /\ request.path \in { BASE, ABOUT_PATH, DATA_PATH, NODOT_PATH, DIR_PATH }
    /\ request.mode = "navigate" \/ request.accept # NO_HEADER

C6_DynamicBounded ==
    Quiescent => Len(Partition(DYNAMIC_CACHE)) <= MAX_DYNAMIC_CACHE_ITEMS

\* C7: once the Image requests have ended and their writes have completed,
\* the Image partition holds at most 100 entries.
C7_ImageBounded ==
    Quiescent => Len(Partition(IMAGE_CACHE)) <= MAX_IMAGE_CACHE_ITEMS

\* C8: limitCacheSize evicts first-in first-out: reading keys k1..kn with
\* n > max it selects exactly the n - max oldest, k1..k(n-max), and deleting
\* them from the partition that still starts with them leaves the remaining
\* entries in unchanged order; with n <= max it deletes nothing; and looking
\* an entry up changes no partition (so not the order of eviction either).
C8_Named(st, nm) == [i \in 1..Len(nm) |-> st[nm[i].id]]

C8_FifoEviction ==
    /\ [][\A t \in Tasks :
            LimitKeys(t) =>
                LET keys == CacheKeys(store[tasks[t].lhandle])
                    n == Len(keys)
                IN  /\ C8_Named(store', names') = C8_Named(store, names)
                    /\ IF n > 50
                       THEN /\ tasks'[t].toDelete = [i \in 1..(n - 50) |-> keys[i]]
                            /\ tasks'[t].pc = "lim_delete"
                       ELSE /\ tasks'[t].toDelete = <<>>
                            /\ tasks'[t].pc = "done"]_vars
    /\ [][\A t \in Tasks :
            LET h == tasks[t].lhandle
                k == Len(tasks[t].toDelete)
            IN  (/\ LimitDelete(t)
                 /\ k <= Len(store[h])
                 /\ SubSeq(CacheKeys(store[h]), 1, k) = tasks[t].toDelete
                 /\ h = IdOf(names, DYNAMIC_CACHE)) =>
                    /\ Partition(DYNAMIC_CACHE)' = SubSeq(store[h], k + 1, Len(store[h]))
                    /\ tasks'[t].pc = "done"]_vars
    /\ [][\A t \in Tasks :
            (\/ CacheFirstMatch(t) \/ NetworkFirstMatch(t) \/ StaleMatch(t)
             \/ CacheFirstFallback(t) \/ NetworkFirstFallback(t)) =>
                C8_Named(store', names') = C8_Named(store, names)]_vars

C8_Witness ==
    \E t \in Tasks :
        /\ tasks[t].pc = "done"
        /\ tasks[t].toDelete = << Key(SELF_ORIGIN, "GET", DATA_PATH, 1),
                                  Key(SELF_ORIGIN, "GET", DATA_PATH, 2) >>
        /\ Len(Partition(DYNAMIC_CACHE)) = 50
        /\ Partition(DYNAMIC_CACHE)[1].key = Key(SELF_ORIGIN, "GET", DATA_PATH, 3)
        /\ Partition(DYNAMIC_CACHE)[50].key = KeyOf(tasks[t].req)

\* C9 (as stated): the same cache-first request issued twice, with nothing
\* else happening, yields identical responses and at most one network fetch
\* in total, however the second request interleaves with the first one's
\* background write.
C9_Fetches(t) ==
    Cardinality({ i \in 1..Len(tasks[t].trace) : tasks[t].trace[i] = "fetch" })

C9_Twice ==
    /\ nEvents = 2
    /\ \A t \in {1, 2} : tasks[t].strategy = "cacheFirst"
    /\ KeyOf(tasks[1].req) = KeyOf(tasks[2].req)

C9_Idempotent ==
    (C9_Twice /\ tasks[1].pc = "done" /\ tasks[2].pc = "done") =>
        /\ tasks[1].result = tasks[2].result
        /\ C9_Fetches(1) + C9_Fetches(2) <= 1

\* C9 (amended): when the first request was answered with an ok response of
\* its own URL and no write of that URL is pending any more, the lookup of
\* the second request settles it with the identical response and without a
\* network fetch.
C9_IdempotentOnceStored ==
    [][(/\ C9_Twice
        /\ tasks[1].pc = "done"
        /\ tasks[1].result.state = "fulfilled"
        /\ tasks[1].result.value = Response(KeyOf(tasks[1].req), TRUE, net.gen)
        /\ \A p \in puts : p.key # KeyOf(tasks[1].req)
        /\ CacheFirstMatch(2)) =>
            /\ tasks'[2].pc = "done"
            /\ tasks'[2].result = tasks[1].result
            /\ C9_Fetches(1) <= 1
            /\ tasks'[2].trace = <<"lookup">>]_vars

C9_Witness ==
    /\ C9_Twice
    /\ tasks[1].pc = "done" /\ tasks[2].pc = "done"
    /\ tasks[1].trace = <<"lookup", "fetch", "put">>
    /\ tasks[2].trace = <<"lookup">>
    /\ tasks[2].result = tasks[1].result
    /\ IsResponse(tasks[1].result.value)

\* C10: the activate handler deletes exactly the caches whose name starts
\* with "inzies-" and does not end with the current version: of the caches
\* that may exist, inzies-static-v0 and inzies-tmp go, and the three caches
\* of v1 and fonts-v0 stay; once active, no old cache is left.
C10_Old == { OLD_STATIC_CACHE, UNVERSIONED_CACHE }

C10_ActivationDeletesOld ==
    /\ [][ActivateDelete =>
            /\ NameSet(names') = NameSet(names) \ C10_Old
            /\ \A n \in NameSet(names') :
                  store'[IdOf(names', n)] = store[IdOf(names, n)]]_vars
    /\ [](sw.state = "activated" => NameSet(names) \cap C10_Old = {})

C10_Witness ==
    /\ sw.state = "activated"
    /\ nEvents = 0
    /\ NameSet(names) = { STATIC_CACHE, FOREIGN_CACHE }

\* C11: install is all-or-nothing over the manifest: the addAll step ends in
\* "installed" exactly when the network answers every manifest path with an
\* ok response, and then the Static partition holds all of them; otherwise
\* the install fails and the step leaves every cache as it was, so a failed
\* install never leaves an entry fetched by that attempt in the Static
\* partition.
C11_ManifestOk ==
    /\ ~net.down
    /\ \A i \in 1..Len(STATIC_ASSETS) : STATIC_ASSETS[i] \notin net.missing

C11_ManifestKeys == { Key(SELF_ORIGIN, "GET", STATIC_ASSETS[i], 0) : i \in 1..Len(STATIC_ASSETS) }

C11_AllOrNothing ==
    /\ [][InstallAddAll =>
            IF C11_ManifestOk
            THEN /\ sw'.state = "installed"
                 /\ HasName(names, STATIC_CACHE) =>
                       \A k \in C11_ManifestKeys :
                           CacheMatch(Partition(STATIC_CACHE)', k) = Response(k, TRUE, net.gen)
            ELSE /\ sw'.state = "redundant"
                 /\ names' = names
                 /\ C8_Named(store', names') = C8_Named(store, names)]_vars
    /\ [](sw.state = "redundant" =>
            \A i \in 1..Len(Partition(STATIC_CACHE)) : Partition(STATIC_CACHE)[i].resp.gen = 0)

C11_Witness ==
    /\ sw.state = "redundant"
    /\ ~net.down
    /\ net.missing = {ABOUT_PATH, LOGO_PATH}
    /\ HasName(names, STATIC_CACHE)
    /\ Partition(STATIC_CACHE) = <<>>

\* C12 (as stated): whenever the worker is activated, every manifest path is
\* stored in its Static partition at that time.
C12_Precached ==
    \A k \in C11_ManifestKeys : IsResponse(CacheMatch(Partition(STATIC_CACHE), k))

C12_CompleteAtActivation ==
    [][ActivateEvent => C12_Precached]_vars

\* C12 (amended): a worker being activated has a Static partition that holds
\* every manifest path, or none at all because CLEAR_CACHE deleted it
\* meanwhile, never a partial one; the activate handler runs only in a
\* worker whose install succeeded; a failed addAll calls no skipWaiting and
\* ends the worker for good: from then on it is never activated, the older
\* version keeps its clients, and the caches change only by the deletions of
\* a CLEAR_CACHE posted before.
C12_NeverPartiallyPrecached ==
    /\ [](sw.state = "activating" =>
            C12_Precached \/ ~HasName(names, STATIC_CACHE))
    /\ [](activation.pc # "idle" => sw.state = "activating")
    /\ [][(InstallAddAll /\ ~C11_ManifestOk) =>
            /\ sw' = [sw EXCEPT !.state = "redundant"]
            /\ activation' = IDLE]_vars
    /\ [][sw.state = "redundant" =>
            /\ sw' = sw
            /\ activation' = IDLE
            /\ (names' # names \/ store' # store) => clearing.pc = "delete"]_vars

C12_Witness ==
    /\ sw = [state |-> "redundant", skip |-> FALSE, old |-> TRUE]
    /\ activation = IDLE
    /\ Partition(OLD_STATIC_CACHE) = << Entry(ROOT_KEY, 0) >>
    /\ Partition(STATIC_CACHE) = <<>>
    /\ nEvents = MaxEvents

\* C13: the deletions of CLEAR_CACHE remove every cache the command listed;
\* when no cache was opened since the listing (no request handled, no install
\* step run meanwhile), no cache named "inzies-..." is left afterwards, of
\* the current version or an older one, the precached Static cache included.
C13_Listed == { clearing.list[i] : i \in 1..Len(clearing.list) }

C13_ClearDeletesManaged ==
    [][ClearDelete =>
          /\ NameSet(names') \cap C13_Listed = {}
          /\ clearing' = IDLE
          /\ NameSet(names) \subseteq C13_Listed =>
                \A n \in { STATIC_CACHE, DYNAMIC_CACHE, IMAGE_CACHE,
                            OLD_STATIC_CACHE, UNVERSIONED_CACHE } \cup NameSet(names') :
                    /\ StartsWith(n, CACHE_PREFIX) => ~HasName(names', n)
                    /\ Partition(n)' = <<>>]_vars

C13_Witness ==
    /\ clearing = IDLE
    /\ names = <<>>
    /\ sw = [state |-> "installed", skip |-> TRUE, old |-> TRUE]
    /\ nEvents = 1

\* C14 (as stated): an image is cached, CLEAR_CACHE has been posted and then
\* one request for that image is intercepted while the network answers ok:
\* once the deletions and the request's write are done, the request has
\* issued exactly one fetch and the Image partition holds the new entry,
\* however the deletions interleave with the request.
C14_Image == Key(SELF_ORIGIN, "GET", LOGO_PATH, 1)

C14_Old == Response(C14_Image, TRUE, 0)

C14_NetOk == ~net.down /\ LOGO_PATH \notin net.missing

C14_FirstDone ==
    /\ tasks[1].pc = "done"
    /\ KeyOf(tasks[1].req) = C14_Image
    /\ \A t \in Tasks \ {1} : tasks[t].req # tasks[1].req
    /\ C14_NetOk
    /\ clearing = IDLE
    /\ \A p \in puts : p.key # C14_Image

C14_FreshAfterClear ==
    C14_FirstDone =>
        /\ C9_Fetches(1) = 1
        /\ CacheMatch(Partition(IMAGE_CACHE), C14_Image) = Response(C14_Image, TRUE, net.gen)

\* C14 (amended): a request that opens the Image partition after the
\* deletions have run gets a cache without the old entry (created anew by
\* caches.open), and a request not answered with the old entry has issued
\* exactly one fetch and left the new entry in the Image partition; a
\* request that opened the partition before the deletions ran is answered
\* with the old entry, without a fetch.
C14_FreshOnceDeleted ==
    /\ [][\A t \in Tasks :
            (Open(t) /\ KeyOf(tasks[t].req) = C14_Image /\ clearing = IDLE) =>
                /\ tasks'[t].handle = IdOf(names', IMAGE_CACHE)
                /\ CacheMatch(store'[tasks'[t].handle], C14_Image) # C14_Old]_vars
    /\ [](\A t \in Tasks :
            (clearing = IDLE /\ tasks[t].handle # 0
               /\ tasks[t].handle = IdOf(names, IMAGE_CACHE)) =>
                CacheMatch(store[tasks[t].handle], C14_Image) # C14_Old)
    /\ [](C14_FirstDone =>
            IF tasks[1].result.value = C14_Old
            THEN tasks[1].trace = <<"lookup">>
            ELSE /\ C9_Fetches(1) = 1
                 /\ tasks[1].result.value = Response(C14_Image, TRUE, net.gen)
                 /\ CacheMatch(Partition(IMAGE_CACHE), C14_Image) = tasks[1].result.value)

C14_Witness ==
    /\ C14_FirstDone
    /\ tasks[1].trace = <<"lookup", "fetch", "put">>
    /\ Len(Partition(IMAGE_CACHE)) = 1
    /\ CacheMatch(Partition(IMAGE_CACHE), C14_Image) = Response(C14_Image, TRUE, net.gen)
    /\ names = << [name |-> IMAGE_CACHE, id |-> IdOf(names, IMAGE_CACHE)] >>

\* C15: a stale-while-revalidate lookup that finds the request's key in the
\* Dynamic partition settles the response with that entry while the fetch
\* it has just started is still pending; the request starts exactly one
\* fetch; when the fetch settles, an ok response is written under the key
\* and the completed write replaces the entry (same number of entries, the
\* fresh response found by the next lookup), while a rejection or a non-ok
\* response writes nothing and changes no cache; the response already
\* delivered stays as it was.
C15_Dynamic(t) ==
    /\ tasks[t].strategy = "staleWhileRevalidate"
    /\ tasks[t].handle = IdOf(names, DYNAMIC_CACHE)

C15_ServeStaleThenRefresh ==
    /\ [][\A t \in Tasks :
            LET entry == CacheMatch(Partition(DYNAMIC_CACHE), KeyOf(tasks[t].req))
            IN  (StaleMatch(t) /\ C15_Dynamic(t) /\ IsResponse(entry)) =>
                    /\ tasks'[t].result = Fulfilled(entry)
                    /\ tasks'[t].pc = "swr_fetch"
                    /\ tasks'[t].trace = <<"lookup", "fetch">>]_vars
    /\ [](\A t \in Tasks :
            tasks[t].strategy = "staleWhileRevalidate" =>
                tasks[t].trace \in { <<>>, <<"lookup", "fetch">>, <<"lookup", "fetch", "put">> })
    /\ [][\A t \in Tasks :
            LET key == KeyOf(tasks[t].req)
                ok == ~net.down /\ PathList[key.path] \notin net.missing
            IN  (StaleFetch(t) /\ C15_Dynamic(t) /\ IsResponse(tasks[t].cached)) =>
                    /\ tasks'[t].result = Fulfilled(tasks[t].cached)
                    /\ C8_Named(store', names') = C8_Named(store, names)
                    /\ puts' = IF ok
                               THEN puts \cup { [obj |-> IdOf(names, DYNAMIC_CACHE), key |-> key,
                                                 resp |-> Response(key, TRUE, net.gen)] }
                               ELSE puts]_vars
    /\ [][\A p \in puts :
            (BackgroundPut(p) /\ p.obj = IdOf(names, DYNAMIC_CACHE)
               /\ IsResponse(CacheMatch(Partition(DYNAMIC_CACHE), p.key))) =>
                    /\ CacheMatch(Partition(DYNAMIC_CACHE)', p.key) = p.resp
                    /\ Len(Partition(DYNAMIC_CACHE)') = Len(Partition(DYNAMIC_CACHE))]_vars

C15_Witness ==
    \E t \in Tasks :
        /\ tasks[t].strategy = "staleWhileRevalidate"
        /\ tasks[t].pc = "done"
        /\ tasks[t].result = Fulfilled(Response(KeyOf(tasks[t].req), TRUE, 0))
        /\ tasks[t].trace = <<"lookup", "fetch", "put">>
        /\ puts = {}
        /\ net.gen = 2
        /\ CacheMatch(Partition(DYNAMIC_CACHE), KeyOf(tasks[t].req))
              = Response(KeyOf(tasks[t].req), TRUE, 2)
        /\ Len(Partition(DYNAMIC_CACHE)) = MAX_DYNAMIC_CACHE_ITEMS

\* C16: a stale-while-revalidate request whose lookup missed settles with
\* the outcome of its fetch: fulfilled with the network's response for the
\* request when the fetch resolved, rejected when the fetch rejected (never
\* fulfilled with a value put in place of the failure).
C16_NetworkOutcome ==
    \A t \in Tasks :
        (/\ tasks[t].pc = "done"
         /\ tasks[t].strategy = "staleWhileRevalidate"
         /\ ~IsResponse(tasks[t].cached)) =>
            \/ tasks[t].result.state = "rejected"
            \/ /\ tasks[t].result.state = "fulfilled"
               /\ IsResponse(tasks[t].result.value)
               /\ tasks[t].result.value.key = KeyOf(tasks[t].req)

\* C17: a network-first request whose fetch failed settles, in this order,
\* with the entry of the Dynamic partition for the request when the lookup
\* finds one, else with the root document when some cache stores it, else
\* as a rejected promise (the network failure passed on).
C17_FallbackChain ==
    \A t \in Tasks :
        (/\ tasks[t].pc = "done"
         /\ tasks[t].strategy = "networkFirst"
         /\ Len(tasks[t].trace) >= 2
         /\ tasks[t].trace[2] = "lookup") =>
            IF IsResponse(tasks[t].cached)
            THEN /\ tasks[t].result = Fulfilled(tasks[t].cached)
                 /\ tasks[t].trace = <<"fetch", "lookup">>
            ELSE IF IsResponse(StorageMatch(names, store, ROOT_KEY))
            THEN /\ tasks[t].result = Fulfilled(StorageMatch(names, store, ROOT_KEY))
                 /\ tasks[t].trace = <<"fetch", "lookup", "root">>
            ELSE tasks[t].result.state = "rejected"

\* C18: a cache-first request that missed its partition and whose fetch was
\* rejected is fulfilled, not rejected, with the root document whenever
\* some cache stores the root document: the response of the first cache, in
\* creation order, that holds it.
C18_RootHolders == { i \in 1..Len(names) : CacheIndex(store[names[i].id], ROOT_KEY) # 0 }

C18_RootFallback ==
    \A t \in Tasks :
        (/\ tasks[t].pc = "done"
         /\ tasks[t].strategy = "cacheFirst"
         /\ ~IsResponse(tasks[t].cached)
         /\ net.down
         /\ C18_RootHolders # {}) =>
            /\ tasks[t].result.state = "fulfilled"
            /\ tasks[t].result.value.key = ROOT_KEY
            /\ \E i \in C18_RootHolders :
                  /\ \A j \in C18_RootHolders : i <= j
                  /\ CacheMatch(store[names[i].id], ROOT_KEY) = tasks[t].result.value

C18_Witness ==
    \E t \in Tasks :
        /\ tasks[t].pc = "done"
        /\ tasks[t].req.path = LOGO_PATH
        /\ tasks[t].trace = <<"lookup", "fetch", "root">>
        /\ net.down
        /\ tasks[t].result = Fulfilled(Response(ROOT_KEY, TRUE, 1))

\* C19: cache-first and stale-while-revalidate never wait for the write
\* they issue: the step that issues the write of an ok response also
\* settles the response (if the lookup had not settled it before), leaving
\* the write pending, and the completion of a write changes no task.
C19_Writers == { "cacheFirst", "staleWhileRevalidate" }

C19_WritesNeverBlock ==
    /\ [](\A t \in Tasks :
            (/\ tasks[t].strategy \in C19_Writers
             /\ tasks[t].trace # <<>>
             /\ tasks[t].trace[Len(tasks[t].trace)] = "put") =>
                /\ tasks[t].pc = "done"
                /\ tasks[t].result.state = "fulfilled"
                /\ IsResponse(tasks[t].result.value))
    /\ [][\A t \in Tasks :
            LET key == KeyOf(tasks[t].req)
                ok == ~net.down /\ PathList[key.path] \notin net.missing
            IN  ((CacheFirstFetch(t) \/ StaleFetch(t)) /\ ok) =>
                    /\ tasks'[t].result.state = "fulfilled"
                    /\ \E p \in puts' : p.key = key /\ p.resp = Response(key, TRUE, net.gen)
                    /\ C8_Named(store', names') = C8_Named(store, names)]_vars
    /\ [][\A p \in puts : BackgroundPut(p) => tasks' = tasks]_vars

C19_Witness ==
    \E t \in Tasks :
        /\ tasks[t].pc = "done"
        /\ tasks[t].strategy = "cacheFirst"
        /\ tasks[t].trace = <<"lookup", "fetch", "put">>
        /\ tasks[t].result = Fulfilled(Response(KeyOf(tasks[t].req), TRUE, net.gen))
        /\ puts = { [obj |-> IdOf(names, IMAGE_CACHE), key |-> KeyOf(tasks[t].req),
                     resp |-> tasks[t].result.value] }
        /\ CacheMatch(Partition(IMAGE_CACHE), KeyOf(tasks[t].req)) = UNDEFINED

\* C20: at every moment the Dynamic partition holds at most 50 entries plus
\* one per write to it in flight (a request on the Dynamic partition still
\* being handled, or a write issued and not yet completed); with nothing in
\* flight it holds at most 50.
C20_InFlight ==
    Cardinality({ t \in Tasks : ~Free(t) /\ tasks[t].cacheName = DYNAMIC_CACHE })
        + Cardinality({ p \in puts : p.obj = IdOf(names, DYNAMIC_CACHE) })

C20_TransientOvershoot ==
    Len(Partition(DYNAMIC_CACHE)) <= MAX_DYNAMIC_CACHE_ITEMS + C20_InFlight

\* C21: while the first request's task waits (for a fetch that is slow,
\* never settles or has failed), every other request being handled, whose
\* own fetch and cache operations settle, has its response settled
\* eventually.
C21_OthersSettle ==
    \A t \in Tasks \ {1} : (tasks[t].pc # "idle") ~> (tasks[t].pc = "done" /\ Settled(t))

C21_Witness ==
    /\ tasks[1].pc = "cf_fetch"
    /\ tasks[2].pc = "done"
    /\ tasks[2].strategy = "networkFirst"
    /\ IsResponse(tasks[2].result.value)

\* C22: handling one request issues at most one fetch, on every path of
\* every strategy, and a rejected fetch is followed by the strategy's
\* fallback only: at most one lookup and at most one root-document lookup,
\* and no further fetch.
C22_Count(t, what) ==
    Cardinality({ i \in 1..Len(tasks[t].trace) : tasks[t].trace[i] = what })

C22_NoRetry ==
    \A t \in Tasks :
        /\ C22_Count(t, "fetch") <= 1
        /\ C22_Count(t, "lookup") <= 1
        /\ C22_Count(t, "root") <= 1
        /\ C22_Count(t, "put") <= 1
        /\ C22_Count(t, "root") = 1 =>
              /\ tasks[t].pc = "done"
              /\ tasks[t].trace[Len(tasks[t].trace)] = "root"
              /\ net.down

C22_Witness ==
    \E t \in Tasks :
        /\ tasks[t].pc = "done"
        /\ tasks[t].strategy = "networkFirst"
        /\ tasks[t].trace = <<"fetch", "lookup", "root">>
        /\ net.down
        /\ IsResponse(tasks[t].result.value)

\* C23: a message whose type is neither SKIP_WAITING nor CLEAR_CACHE (another
\* type, data without a type, no data) changes nothing: no cache is created,
\* deleted or modified, no deletion is started, skipWaiting is not called
\* and the lifecycle state stays as it is.
C23_Commands == { "SKIP_WAITING", "CLEAR_CACHE" }

C23_UnknownIgnored ==
    [][\A msg \in Messages :
          (TypeOf(msg) \notin C23_Commands /\ MessageEvent(msg)) =>
              UNCHANGED << sw, names, store, net, tasks, puts, activation,
                           clearing, passed >>]_vars

C23_Witness ==
    /\ nEvents = 1
    /\ sw = [state |-> "installed", skip |-> TRUE, old |-> TRUE]
    /\ clearing = IDLE
    /\ passed = 0
    /\ net = [down |-> FALSE, missing |-> {}, gen |-> 1]
    /\ NameSet(names) = { STATIC_CACHE, OLD_STATIC_CACHE, UNVERSIONED_CACHE, FOREIGN_CACHE }
    /\ C12_Precached

\* C24: SKIP_WAITING sets the skipWaiting flag and changes nothing else (no
\* cache, no lifecycle state); a worker that is installed with the flag set
\* is activated, its activate handler running to the end, while the older
\* version still has clients; and no worker is activated behind an older
\* version without the flag.
C24_SkipWaiting == [data |-> TRUE, type |-> "SKIP_WAITING"]

C24_SkipWaitingActivates ==
    /\ [][MessageEvent(C24_SkipWaiting) =>
            /\ sw' = [sw EXCEPT !.skip = TRUE]
            /\ UNCHANGED << names, store, tasks, puts, activation, clearing >>]_vars
    /\ [][ActivateEvent => (sw.state = "installed" /\ (sw.skip \/ ~sw.old))]_vars
    /\ (sw.state = "installed" /\ sw.skip /\ sw.old) ~> (activation.pc = "keys")
    /\ (activation.pc = "keys") ~> (sw.state = "activated")

C24_Witness ==
    /\ sw = [state |-> "precaching", skip |-> TRUE, old |-> TRUE]
    /\ nEvents = 1
    /\ clearing = IDLE

\* C25: with the whole manifest precached in the Static partition, a request
\* for a manifest path that no other partition has an entry for, handled
\* while the network is down, is answered with the response precached for
\* that path.
C25_ServedPrecachedOffline ==
    \A t \in Tasks :
        (/\ tasks[t].pc = "done"
         /\ net.down
         /\ KeyOf(tasks[t].req) \in C11_ManifestKeys
         /\ C12_Precached
         /\ ~IsResponse(CacheMatch(Partition(DYNAMIC_CACHE), KeyOf(tasks[t].req)))
         /\ ~IsResponse(CacheMatch(Partition(IMAGE_CACHE), KeyOf(tasks[t].req)))) =>
            tasks[t].result
                = Fulfilled(CacheMatch(Partition(STATIC_CACHE), KeyOf(tasks[t].req)))

\* C26: the install listener calls skipWaiting only when addAll has stored
\* the whole manifest: opening the cache leaves the flag alone, a failed
\* addAll leaves it alone, a successful one sets it with the manifest
\* stored, and without a message the flag is never set in a worker that is
\* still installing or whose install failed; an installed worker is then
\* activated even if the clients of the older version never close.
C26_SkipAfterPrecache ==
    /\ [][InstallOpen => sw'.skip = sw.skip]_vars
    /\ [][InstallAddAll =>
            IF C11_ManifestOk
            THEN /\ sw'.skip
                 /\ sw'.state = "installed"
                 /\ HasName(names, STATIC_CACHE) => C12_Precached'
            ELSE /\ sw'.skip = sw.skip
                 /\ sw'.state = "redundant"]_vars
    /\ []((nEvents = 0 /\ sw.skip) => sw.state \in { "installed", "activating", "activated" })
    /\ (sw.state = "installed" /\ sw.old) ~> (sw.state = "activated")

C26_Witness ==
    /\ sw = [state |-> "installed", skip |-> TRUE, old |-> TRUE]
    /\ nEvents = 0
    /\ C12_Precached

\* C27: a cache exists only once an entry has been stored in it: when the
\* requests have ended and none of them has issued a write, every cache
\* that exists holds an entry (a request ending without a write has
\* created none).
C27_CreatedOnFirstWrite ==
    (\A t \in Tasks : Free(t) /\ C22_Count(t, "put") = 0) =>
        \A n \in NameSet(names) : Partition(n) # <<>>

\* C28: every entry of every cache, and every write still pending, holds an
\* ok response; a request answered with a non-ok response has issued no
\* write.
C28_OnlyOkStored ==
    /\ \A i \in ObjIds : \A j \in 1..Len(store[i]) : store[i][j].resp.ok
    /\ \A p \in puts : p.resp.ok
    /\ \A t \in Tasks :
          (/\ tasks[t].pc = "done"
           /\ IsResponse(tasks[t].result.value)
           /\ tasks[t].result.value.key = KeyOf(tasks[t].req)
           /\ ~tasks[t].result.value.ok) =>
              C22_Count(t, "put") = 0

C28_Witness ==
    \E t \in Tasks :
        /\ tasks[t].pc = "done"
        /\ tasks[t].strategy = "networkFirst"
        /\ tasks[t].result = Fulfilled(Response(KeyOf(tasks[t].req), FALSE, net.gen))
        /\ puts = {}
        /\ C12_Precached
        /\ CacheMatch(Partition(DYNAMIC_CACHE), KeyOf(tasks[t].req)) = UNDEFINED

\* C29: processing CLEAR_CACHE leaves every cache whose name does not start
\* with the worker's prefix in place with the same entries.
C29_ForeignKept ==
    [][ClearDelete =>
          \A n \in NameSet(names) :
              ~StartsWith(n, CACHE_PREFIX) =>
                  /\ HasName(names', n)
                  /\ Partition(n)' = Partition(n)]_vars

\* C30 (as stated): a successful install leaves the root document in the
\* current Static cache; no step other than the deletions of CLEAR_CACHE
\* removes it from there; and while it is there, a cache-first or
\* network-first request whose fetch failed settles fulfilled with a
\* response.
C30_RootInStatic == IsResponse(CacheMatch(Partition(STATIC_CACHE), ROOT_KEY))

C30_AfterFailedFetch == { "cf_fallback", "nf_match", "nf_fallback" }

C30_Kept ==
    [][(C30_RootInStatic /\ ~ClearDelete) => C30_RootInStatic']_vars

C30_Answered ==
    /\ [][\A t \in Tasks :
            (/\ C30_RootInStatic
             /\ tasks[t].pc \in C30_AfterFailedFetch
             /\ tasks'[t].pc = "done") =>
                /\ tasks'[t].result.state = "fulfilled"
                /\ IsResponse(tasks'[t].result.value)]_vars
    /\ [](\A t \in Tasks :
            tasks[t].pc \in C30_AfterFailedFetch =>
                tasks[t].strategy \in { "cacheFirst", "networkFirst" })

C30_RootStaysUntilClear ==
    /\ [][(InstallAddAll /\ sw'.state = "installed") => C30_RootInStatic']_vars
    /\ C30_Kept
    /\ C30_Answered

\* C30 (amended): a successful install leaves the root document in the
\* current Static cache unless the deletions of a CLEAR_CACHE ran between
\* the install's caches.open and its addAll, in which case the install
\* still succeeds and no Static cache exists; once the root document is in
\* the Static cache no step other than the deletions of CLEAR_CACHE removes
\* it; and while it is there, a cache-first or network-first request whose
\* fetch failed settles fulfilled with a response.
C30_RootStaysOnceStored ==
    /\ [][(InstallAddAll /\ sw'.state = "installed") =>
            IF HasName(names, STATIC_CACHE)
            THEN C30_RootInStatic'
            ELSE names' = names /\ ~C30_RootInStatic']_vars
    /\ C30_Kept
    /\ C30_Answered

C30_Witness ==
    \E t \in Tasks :
        /\ tasks[t].pc = "done"
        /\ tasks[t].strategy = "networkFirst"
        /\ tasks[t].trace = <<"fetch", "lookup", "root">>
        /\ tasks[t].result = Fulfilled(CacheMatch(Partition(STATIC_CACHE), ROOT_KEY))
        /\ sw.state = "activated"
        /\ C12_Precached
        /\ clearing = IDLE
        /\ ~HasName(names, OLD_STATIC_CACHE)
        /\ HasName(names, FOREIGN_CACHE)

====
